---- MODULE Spec2Model ----
(***************************************************************************)
(* go-license: binary license codec (pkg/licformat), signature, expiry and *)
(* hardware verification (pkg/licverify) and issuing (pkg/licgen).         *)
(*                                                                         *)
(* A byte is an integer 0..255, a string and a byte slice are sequences of *)
(* bytes.  An int64 is held as its eight little-endian bytes, so that no   *)
(* value read from a file leaves the range of the model's integers.        *)
(***************************************************************************)
EXTENDS Integers, Sequences, FiniteSets, TLC

VARIABLES
    encIn,      \* codec: the LicenseData handed to EncodeLicenseData
    encOut,     \* codec: the bytes EncodeLicenseData returned
    decOut,     \* codec: the result of DecodeLicenseData(encOut)
    cpc,        \* codec: "init" -> "encoded" -> "decoded"
    order,      \* the license the issuer is asked for
    file,       \* the bytes of the license file, <<>> before it is written
    issued,     \* what the issuer was asked for and what it wrote
    edit,       \* what was done to the file after it was written
    pub,        \* the public key of the Verifier
    loaded,     \* the result of Verifier.LoadLicense
    res,        \* the last verification call and what it returned
    machine,    \* what the operating system reports about the hardware
    now,        \* the clock: the reading time.Now() returns
    ticks       \* how often the clock has advanced

cvars == <<encIn, encOut, decOut, cpc>>

lvars == <<order, file, issued, edit, pub, loaded, res, machine, now, ticks>>

vars == <<encIn, encOut, decOut, cpc,
          order, file, issued, edit, pub, loaded, res, machine, now, ticks>>

----------------------------------------------------------------------------
(* Bounds *)

MaxStrLen == 1      \* longest string of the enumerated payloads
MaxList == 2        \* longest list of the enumerated payloads
NumKeys == 3        \* key pairs
MaxTicks == 4       \* advances of the clock
MaxCut == 3         \* bytes an encoding may lose at its end
NumCalls == 2       \* verification calls in flight on one Verifier

----------------------------------------------------------------------------
(* Bytes, integers, times *)

Min(a, b) == IF a < b THEN a ELSE b

\* k zero bytes: make([]byte, k)
Zeros(k) == [i \in 1..k |-> 0]

RECURSIVE LE(_, _)
\* binary.LittleEndian encoding of the non-negative integer n on k bytes
LE(n, k) == IF k = 0 THEN <<>> ELSE <<n % 256>> \o LE(n \div 256, k - 1)

\* int64 of a small non-negative integer
I64(n) == LE(n, 8)

\* time.Time: Unix seconds (int64) and the nanoseconds within the second
Time(sec, nsec) == [sec |-> sec, nsec |-> nsec]

\* Time.Unix()
Unix(t) == t.sec

\* time.Unix(sec, 0)
TimeUnix(sec) == [sec |-> sec, nsec |-> 0]

\* Time.Equal at second resolution
SameSecond(t, u) == Unix(t) = Unix(u)

----------------------------------------------------------------------------
(* pkg/licformat: binary.go *)

currentVersion == 1

headerSize == 5

\* a writeString that leaves the length out
writeStringBare(buf, s) == buf \o s

\* writeString: uint16(len(data)) then the bytes
writeString(buf, s) == buf \o LE(Len(s) % 65536, 2) \o s

RECURSIVE writeStrings(_, _)
writeStrings(buf, slice) ==
    IF slice = <<>> THEN buf
    ELSE writeStrings(writeString(buf, Head(slice)), Tail(slice))

\* writeStringSlice: uint16(len(slice)) then every string
writeStringSlice(buf, slice) ==
    writeStrings(buf \o LE(Len(slice) % 65536, 2), slice)

\* EncodeLicenseData: header placeholder, fields, then the length patched in
EncodeLicenseData(data) ==
    LET b0 == <<currentVersion>> \o LE(0, 4)
        b1 == writeString(b0, data.ID)
        b2 == writeString(b1, data.CustomerID)
        b3 == writeString(b2, data.ProductID)
        b4 == writeString(b3, data.SerialNumber)
        b5 == b4 \o Unix(data.IssueDate)
        b6 == b5 \o Unix(data.ExpiryDate)
        b7 == writeStringSlice(b6, data.Features)
        b8 == writeStringSlice(b7, data.HardwareIDs.MACAddresses)
        b9 == writeStringSlice(b8, data.HardwareIDs.DiskIDs)
        b10 == writeStringSlice(b9, data.HardwareIDs.HostNames)
        b11 == writeStringSlice(b10, data.HardwareIDs.CustomIDs)
    IN  <<b11[1]>> \o LE(Len(b11) - headerSize, 4)
            \o SubSeq(b11, headerSize + 1, Len(b11))

\* a failed read
ReadErr == [ok |-> FALSE, val |-> <<>>, pos |-> 0]

\* binary.Read of k bytes at offset i (io.ReadFull: all k bytes or an error)
readFull(data, i, k) ==
    IF i + k <= Len(data)
    THEN [ok |-> TRUE, val |-> SubSeq(data, i + 1, i + k), pos |-> i + k]
    ELSE ReadErr

\* binary.Read of a uint16
readU16(data, i) ==
    LET r == readFull(data, i, 2)
    IN  IF r.ok THEN [r EXCEPT !.val = r.val[1] + 256 * r.val[2]] ELSE ReadErr

\* buf.Read into make([]byte, length) at offset i: bytes.Reader.Read returns
\* io.EOF when no byte is left (also for an empty destination) and otherwise
\* copies what is there, without an error when that is fewer than length
\* bytes; the rest of the destination stays zero
bufRead(data, i, length) ==
    IF i >= Len(data) THEN ReadErr
    ELSE [ok |-> TRUE,
          val |-> SubSeq(data, i + 1, i + Min(length, Len(data) - i))
                      \o Zeros(length - Min(length, Len(data) - i)),
          pos |-> i + Min(length, Len(data) - i)]

\* readString: the length, then ONE buf.Read(data)
readString(data, i) ==
    LET l == readU16(data, i)
    IN  IF ~l.ok THEN ReadErr ELSE bufRead(data, l.pos, l.val)

RECURSIVE readStrings(_, _, _, _)
readStrings(data, i, k, acc) ==
    IF k = 0 THEN [ok |-> TRUE, val |-> acc, pos |-> i]
    ELSE LET s == readString(data, i)
         IN  IF ~s.ok THEN ReadErr
             ELSE readStrings(data, s.pos, k - 1, Append(acc, s.val))

\* readStringSlice: the count, then count strings
readStringSlice(data, i) ==
    LET c == readU16(data, i)
    IN  IF ~c.ok THEN ReadErr ELSE readStrings(data, c.pos, c.val, <<>>)

\* the result of a failed decode
NoData == [ok |-> FALSE]

\* the fields DecodeLicenseData reads after the header, in its order: four
\* strings, two int64 and five string slices
Fields ==
    <<"string", "string", "string", "string", "int64", "int64",
      "slice", "slice", "slice", "slice", "slice">>

\* one read of DecodeLicenseData
readField(data, i, kind) ==
    IF kind = "string" THEN readString(data, i)
    ELSE IF kind = "int64" THEN readFull(data, i, 8)
    ELSE readStringSlice(data, i)

RECURSIVE readFields(_, _, _, _)
\* the reads of DecodeLicenseData one after the other, up to the first error
readFields(data, i, kinds, acc) ==
    IF kinds = <<>> THEN [ok |-> TRUE, val |-> acc, pos |-> i]
    ELSE LET r == readField(data, i, Head(kinds))
         IN  IF ~r.ok THEN ReadErr
             ELSE readFields(data, r.pos, Tail(kinds), Append(acc, r.val))

\* the LicenseData DecodeLicenseData returns for the values it read
LicenseDataOf(v) ==
    [ok |-> TRUE,
     ID |-> v[1],
     CustomerID |-> v[2],
     ProductID |-> v[3],
     SerialNumber |-> v[4],
     IssueDate |-> TimeUnix(v[5]),
     ExpiryDate |-> TimeUnix(v[6]),
     Features |-> v[7],
     HardwareIDs |-> [MACAddresses |-> v[8],
                      DiskIDs |-> v[9],
                      HostNames |-> v[10],
                      CustomIDs |-> v[11]]]

\* DecodeLicenseData: the header (its length field is read and not used),
\* then the fields; bytes after the last field are not looked at
DecodeLicenseData(data) ==
    IF Len(data) < headerSize THEN NoData
    ELSE IF data[1] # currentVersion THEN NoData
    ELSE LET r == readFields(data, headerSize, Fields, <<>>)
         IN  IF ~r.ok THEN NoData ELSE LicenseDataOf(r.val)

----------------------------------------------------------------------------
(* encoding/json on licverify.License: the text json.Marshal writes for the  *)
(* struct tags of License and HardwareBinding, and json.Unmarshal of such a  *)
(* text.  A time is written as the sixteen hex digits of its Unix seconds,   *)
(* an optional fraction and "Z" (in place of the RFC 3339 calendar form);    *)
(* Unmarshal reads objects whose members are the tagged fields, in any order *)
(* and with any white space, and strings without escapes.                    *)

\* time.Time{}: 0001-01-01 00:00:00, Unix second -62135596800
ZeroTime == [sec |-> <<0, 9, 110, 136, 241, 255, 255, 255>>, nsec |-> 0]

\* the zero License value
ZeroLicense ==
    [ID |-> <<>>, CustomerID |-> <<>>, ProductID |-> <<>>,
     SerialNumber |-> <<>>, IssueDate |-> ZeroTime, ExpiryDate |-> ZeroTime,
     Features |-> <<>>,
     HardwareIDs |-> [MACAddresses |-> <<>>, DiskIDs |-> <<>>,
                      HostNames |-> <<>>, CustomIDs |-> <<>>],
     Signature |-> <<>>]

KeyId == <<105, 100>>
KeyCustomerId == <<99, 117, 115, 116, 111, 109, 101, 114, 95, 105, 100>>
KeyProductId == <<112, 114, 111, 100, 117, 99, 116, 95, 105, 100>>
KeySerialNumber == <<115, 101, 114, 105, 97, 108, 95, 110, 117, 109, 98, 101, 114>>
KeyIssueDate == <<105, 115, 115, 117, 101, 95, 100, 97, 116, 101>>
KeyExpiryDate == <<101, 120, 112, 105, 114, 121, 95, 100, 97, 116, 101>>
KeyFeatures == <<102, 101, 97, 116, 117, 114, 101, 115>>
KeyHardwareIds == <<104, 97, 114, 100, 119, 97, 114, 101, 95, 105, 100, 115>>
KeyMacAddresses == <<109, 97, 99, 95, 97, 100, 100, 114, 101, 115, 115, 101, 115>>
KeyDiskIds == <<100, 105, 115, 107, 95, 105, 100, 115>>
KeyHostNames == <<104, 111, 115, 116, 95, 110, 97, 109, 101, 115>>
KeyCustomIds == <<99, 117, 115, 116, 111, 109, 95, 105, 100, 115>>
JsonNull == <<110, 117, 108, 108>>

HexDigit(d) == IF d < 10 THEN 48 + d ELSE 87 + d

HexByte(b) == <<HexDigit(b \div 16), HexDigit(b % 16)>>

\* Time.MarshalJSON
TimeText(t) ==
    HexByte(t.sec[8]) \o HexByte(t.sec[7]) \o HexByte(t.sec[6])
        \o HexByte(t.sec[5]) \o HexByte(t.sec[4]) \o HexByte(t.sec[3])
        \o HexByte(t.sec[2]) \o HexByte(t.sec[1])
        \o (IF t.nsec = 0 THEN <<>> ELSE <<46, 48 + t.nsec>>) \o <<90>>

\* the bytes json.Marshal writes for one byte of a string
EscByte(b) ==
    IF b = 34 THEN <<92, 34>>
    ELSE IF b = 92 THEN <<92, 92>>
    ELSE IF b = 10 THEN <<92, 110>>
    ELSE IF b = 13 THEN <<92, 114>>
    ELSE IF b = 9 THEN <<92, 116>>
    ELSE IF b < 32 \/ b \in {60, 62, 38} THEN <<92, 117, 48, 48>> \o HexByte(b)
    ELSE IF b >= 128 THEN <<92, 117, 102, 102, 102, 100>>
    ELSE <<b>>

RECURSIVE JsonEsc(_)
\* the escaped bytes of s, one half after the other
JsonEsc(s) ==
    IF s = <<>> THEN <<>>
    ELSE IF Len(s) = 1 THEN EscByte(s[1])
    ELSE JsonEsc(SubSeq(s, 1, Len(s) \div 2))
             \o JsonEsc(SubSeq(s, Len(s) \div 2 + 1, Len(s)))

JsonString(s) == <<34>> \o JsonEsc(s) \o <<34>>

RECURSIVE JsonJoin(_)
\* the texts of parts, separated by commas
JsonJoin(parts) ==
    IF parts = <<>> THEN <<>>
    ELSE IF Len(parts) = 1 THEN parts[1]
    ELSE parts[1] \o <<44>> \o JsonJoin(Tail(parts))

JsonArray(list) ==
    <<91>> \o JsonJoin([i \in 1..Len(list) |-> JsonString(list[i])]) \o <<93>>

JsonMember(key, text) == JsonString(key) \o <<58>> \o text

\* a member tagged omitempty
JsonOmitEmpty(key, list) ==
    IF list = <<>> THEN <<>> ELSE <<JsonMember(key, JsonArray(list))>>

\* json.Marshal of a HardwareBinding
JsonHardware(hw) ==
    <<123>> \o JsonJoin(JsonOmitEmpty(KeyMacAddresses, hw.MACAddresses)
                        \o JsonOmitEmpty(KeyDiskIds, hw.DiskIDs)
                        \o JsonOmitEmpty(KeyHostNames, hw.HostNames)
                        \o JsonOmitEmpty(KeyCustomIds, hw.CustomIDs)) \o <<125>>

\* json.Marshal of a License (Signature is tagged "-")
JsonMarshal(lic) ==
    <<123>> \o JsonJoin(<<
        JsonMember(KeyId, JsonString(lic.ID)),
        JsonMember(KeyCustomerId, JsonString(lic.CustomerID)),
        JsonMember(KeyProductId, JsonString(lic.ProductID)),
        JsonMember(KeySerialNumber, JsonString(lic.SerialNumber)),
        JsonMember(KeyIssueDate, JsonString(TimeText(lic.IssueDate))),
        JsonMember(KeyExpiryDate, JsonString(TimeText(lic.ExpiryDate))),
        JsonMember(KeyFeatures, JsonArray(lic.Features)),
        JsonMember(KeyHardwareIds, JsonHardware(lic.HardwareIDs))>>) \o <<125>>

\* json.Marshal of a License of release 1.0, which has no SerialNumber
JsonMarshalV10(lic) ==
    <<123>> \o JsonJoin(<<
        JsonMember(KeyId, JsonString(lic.ID)),
        JsonMember(KeyCustomerId, JsonString(lic.CustomerID)),
        JsonMember(KeyProductId, JsonString(lic.ProductID)),
        JsonMember(KeyIssueDate, JsonString(TimeText(lic.IssueDate))),
        JsonMember(KeyExpiryDate, JsonString(TimeText(lic.ExpiryDate))),
        JsonMember(KeyFeatures, JsonArray(lic.Features)),
        JsonMember(KeyHardwareIds, JsonHardware(lic.HardwareIDs))>>) \o <<125>>

IsWs(b) == b \in {32, 9, 10, 13}

RECURSIVE skipWs(_, _)
skipWs(data, i) ==
    IF i < Len(data) /\ IsWs(data[i + 1]) THEN skipWs(data, i + 1) ELSE i

\* the byte after offset i, -1 at the end of the input
peek(data, i) == IF i < Len(data) THEN data[i + 1] ELSE -1

RECURSIVE scanString(_, _, _)
scanString(data, i, acc) ==
    IF i >= Len(data) THEN ReadErr
    ELSE IF data[i + 1] = 34 THEN [ok |-> TRUE, val |-> acc, pos |-> i + 1]
    ELSE IF data[i + 1] < 32 \/ data[i + 1] = 92 THEN ReadErr
    ELSE scanString(data, i + 1, Append(acc, data[i + 1]))

parseString(data, i) ==
    IF peek(data, i) = 34 THEN scanString(data, i + 1, <<>>) ELSE ReadErr

RECURSIVE parseElems(_, _, _)
parseElems(data, i, acc) ==
    LET s == parseString(data, i)
        j == skipWs(data, s.pos)
    IN  IF ~s.ok THEN ReadErr
        ELSE IF peek(data, j) = 44
             THEN parseElems(data, skipWs(data, j + 1), Append(acc, s.val))
        ELSE IF peek(data, j) = 93
             THEN [ok |-> TRUE, val |-> Append(acc, s.val), pos |-> j + 1]
        ELSE ReadErr

\* a []string: an array of strings, or null
parseStringArray(data, i) ==
    IF peek(data, i) = 91
    THEN LET j == skipWs(data, i + 1)
         IN  IF peek(data, j) = 93
             THEN [ok |-> TRUE, val |-> <<>>, pos |-> j + 1]
             ELSE parseElems(data, j, <<>>)
    ELSE IF i + 4 <= Len(data) /\ SubSeq(data, i + 1, i + 4) = JsonNull
    THEN [ok |-> TRUE, val |-> <<>>, pos |-> i + 4]
    ELSE ReadErr

HexVal(c) ==
    IF c >= 48 /\ c <= 57 THEN c - 48
    ELSE IF c >= 97 /\ c <= 102 THEN c - 87 ELSE -1

\* the time a time text stands for
timeValue(t) ==
    IF /\ Len(t) \in {17, 19}
       /\ \A k \in 1..16 : HexVal(t[k]) >= 0
       /\ IF Len(t) = 19
          THEN t[17] = 46 /\ t[18] >= 49 /\ t[18] <= 57 /\ t[19] = 90
          ELSE t[17] = 90
    THEN [ok |-> TRUE,
          val |-> [sec |-> [k \in 1..8 |->
                               16 * HexVal(t[17 - 2 * k]) + HexVal(t[18 - 2 * k])],
                   nsec |-> IF Len(t) = 19 THEN t[18] - 48 ELSE 0]]
    ELSE [ok |-> FALSE, val |-> ZeroTime]

\* Time.UnmarshalJSON
parseTime(data, i) ==
    LET s == parseString(data, i)
    IN  IF ~s.ok THEN ReadErr
        ELSE IF ~timeValue(s.val).ok THEN ReadErr
        ELSE [s EXCEPT !.val = timeValue(s.val).val]

RECURSIVE parseMembers(_, _, _, _)
RECURSIVE parseObject(_, _, _, _)

\* obj with the field tagged key set to the parsed value r
setField(obj, key, r) ==
    IF ~r.ok THEN ReadErr
    ELSE [r EXCEPT !.val =
            IF key = KeyId THEN [obj EXCEPT !.ID = r.val]
            ELSE IF key = KeyCustomerId THEN [obj EXCEPT !.CustomerID = r.val]
            ELSE IF key = KeyProductId THEN [obj EXCEPT !.ProductID = r.val]
            ELSE IF key = KeySerialNumber THEN [obj EXCEPT !.SerialNumber = r.val]
            ELSE IF key = KeyIssueDate THEN [obj EXCEPT !.IssueDate = r.val]
            ELSE IF key = KeyExpiryDate THEN [obj EXCEPT !.ExpiryDate = r.val]
            ELSE IF key = KeyFeatures THEN [obj EXCEPT !.Features = r.val]
            ELSE IF key = KeyHardwareIds THEN [obj EXCEPT !.HardwareIDs = r.val]
            ELSE IF key = KeyMacAddresses THEN [obj EXCEPT !.MACAddresses = r.val]
            ELSE IF key = KeyDiskIds THEN [obj EXCEPT !.DiskIDs = r.val]
            ELSE IF key = KeyHostNames THEN [obj EXCEPT !.HostNames = r.val]
            ELSE [obj EXCEPT !.CustomIDs = r.val]]

\* the value of member key of a License (kind "lic") or HardwareBinding ("hw")
parseField(data, i, obj, kind, key) ==
    IF kind = "hw"
    THEN IF key \in {KeyMacAddresses, KeyDiskIds, KeyHostNames, KeyCustomIds}
         THEN setField(obj, key, parseStringArray(data, i))
         ELSE ReadErr
    ELSE IF key \in {KeyId, KeyCustomerId, KeyProductId, KeySerialNumber}
         THEN setField(obj, key, parseString(data, i))
    ELSE IF key \in {KeyIssueDate, KeyExpiryDate}
         THEN setField(obj, key, parseTime(data, i))
    ELSE IF key = KeyFeatures
         THEN setField(obj, key, parseStringArray(data, i))
    ELSE IF key = KeyHardwareIds
         THEN setField(obj, key, parseObject(data, i, obj.HardwareIDs, "hw"))
    ELSE ReadErr

parseMembers(data, i, obj, kind) ==
    LET key == parseString(data, i)
        j == skipWs(data, key.pos)
        v == parseField(data, skipWs(data, j + 1), obj, kind, key.val)
        k == skipWs(data, v.pos)
    IN  IF ~key.ok \/ peek(data, j) # 58 THEN ReadErr
        ELSE IF ~v.ok THEN ReadErr
        ELSE IF peek(data, k) = 44
             THEN parseMembers(data, skipWs(data, k + 1), v.val, kind)
        ELSE IF peek(data, k) = 125
             THEN [ok |-> TRUE, val |-> v.val, pos |-> k + 1]
        ELSE ReadErr

parseObject(data, i, obj, kind) ==
    IF peek(data, i) # 123 THEN ReadErr
    ELSE LET j == skipWs(data, i + 1)
         IN  IF peek(data, j) = 125
             THEN [ok |-> TRUE, val |-> obj, pos |-> j + 1]
             ELSE parseMembers(data, j, obj, kind)

\* json.Unmarshal(data, &license) on a zero License
JsonUnmarshal(data) ==
    LET r == parseObject(data, skipWs(data, 0), ZeroLicense, "lic")
    IN  IF r.ok /\ skipWs(data, r.pos) = Len(data)
        THEN [ok |-> TRUE, lic |-> r.val]
        ELSE [ok |-> FALSE, lic |-> ZeroLicense]

----------------------------------------------------------------------------
(* crypto/sha256 and crypto/rsa PKCS #1 v1.5, idealised: the digest of a     *)
(* message stands for the message (no collisions), a key pair is a number,   *)
(* and the only signature a public key accepts for a digest is the one its   *)
(* private key produces (the padding is deterministic): as many bytes as the *)
(* modulus, the last two elements naming the key and the digest.             *)

\* the modulus size of key pair k: licforge keygen -size accepts 2048, 3072
\* and 4096; the first two key pairs have the default size
KeyBits(k) == IF k = 3 THEN 3072 ELSE IF k = 4 THEN 4096 ELSE 2048

KeyBytes(k) == KeyBits(k) \div 8

\* the signature element that names key pair k
KeyTag(k) == 100 + k

\* sha256.Sum256
Sum256(data) == data

\* rsa.SignPKCS1v15(rand.Reader, priv, crypto.SHA256, hashed)
SignPKCS1v15(priv, hashed) == Zeros(KeyBytes(priv) - 2) \o <<KeyTag(priv), hashed>>

\* a verification that compares the digest and not the key
VerifyAnyKey(publicKey, hashed, sig) ==
    /\ Len(sig) = KeyBytes(publicKey)
    /\ sig[Len(sig)] = hashed

\* a verification that compares the key and not the digest
VerifyKeyOnly(publicKey, hashed, sig) ==
    /\ Len(sig) = KeyBytes(publicKey)
    /\ SubSeq(sig, 1, Len(sig) - 1) = SubSeq(SignPKCS1v15(publicKey, hashed), 1, Len(sig) - 1)

\* rsa.VerifyPKCS1v15(publicKey, crypto.SHA256, hashed, sig) = nil
VerifyPKCS1v15(publicKey, hashed, sig) ==
    /\ Len(sig) = KeyBytes(publicKey)
    /\ sig = SignPKCS1v15(publicKey, hashed)

\* licgen.SignData
SignData(data, privateKey) == SignPKCS1v15(privateKey, Sum256(data))

----------------------------------------------------------------------------
(* time *)

Signed(b) == IF b >= 128 THEN b - 256 ELSE b

RECURSIVE I64LessFrom(_, _, _)
\* a < b as int64, comparing from byte k down
I64LessFrom(a, b, k) ==
    IF k = 0 THEN FALSE
    ELSE LET x == IF k = 8 THEN Signed(a[k]) ELSE a[k]
             y == IF k = 8 THEN Signed(b[k]) ELSE b[k]
         IN  IF x < y THEN TRUE
             ELSE IF x > y THEN FALSE
             ELSE I64LessFrom(a, b, k - 1)

\* t.After(u)
After(t, u) ==
    \/ I64LessFrom(u.sec, t.sec, 8)
    \/ u.sec = t.sec /\ u.nsec < t.nsec

\* the reading time.Now() returns when the clock shows second sec
Now(sec, nsec) == Time(I64(sec), nsec)

\* t.Add(d) for a duration of d whole seconds, t within the model's integers
AddSeconds(sec, nsec, d) == Time(I64(sec + d), nsec)

----------------------------------------------------------------------------
(* pkg/licformat: adapter.go *)

\* ToLicenseData
ToLicenseData(license) ==
    [ID |-> license.ID,
     CustomerID |-> license.CustomerID,
     ProductID |-> license.ProductID,
     SerialNumber |-> license.SerialNumber,
     IssueDate |-> license.IssueDate,
     ExpiryDate |-> license.ExpiryDate,
     Features |-> license.Features,
     HardwareIDs |-> [MACAddresses |-> license.HardwareIDs.MACAddresses,
                      DiskIDs |-> license.HardwareIDs.DiskIDs,
                      HostNames |-> license.HardwareIDs.HostNames,
                      CustomIDs |-> license.HardwareIDs.CustomIDs]]

\* FromLicenseData: the Signature is left nil
FromLicenseData(data) ==
    [ID |-> data.ID,
     CustomerID |-> data.CustomerID,
     ProductID |-> data.ProductID,
     SerialNumber |-> data.SerialNumber,
     IssueDate |-> data.IssueDate,
     ExpiryDate |-> data.ExpiryDate,
     Features |-> data.Features,
     HardwareIDs |-> [MACAddresses |-> data.HardwareIDs.MACAddresses,
                      DiskIDs |-> data.HardwareIDs.DiskIDs,
                      HostNames |-> data.HardwareIDs.HostNames,
                      CustomIDs |-> data.HardwareIDs.CustomIDs],
     Signature |-> <<>>]

\* EncodeLicense
EncodeLicense(license) == EncodeLicenseData(ToLicenseData(license))

\* DecodeLicense
DecodeLicense(data) ==
    LET licenseData == DecodeLicenseData(data)
    IN  IF ~licenseData.ok THEN [ok |-> FALSE, lic |-> ZeroLicense]
        ELSE [ok |-> TRUE, lic |-> FromLicenseData(licenseData)]

----------------------------------------------------------------------------
(* pkg/licgen: license.go *)

\* the byte length LoadLicense takes for the signature
SignatureSize == 256

\* the License GenerateLicense builds: IssueDate from a first reading of the
\* clock, ExpiryDate from a second one
NewLicense(req, t1, t2) ==
    [ID |-> req.ID,
     CustomerID |-> req.CustomerID,
     ProductID |-> req.ProductID,
     SerialNumber |-> req.SerialNumber,
     IssueDate |-> Now(t1.sec, t1.nsec),
     ExpiryDate |-> AddSeconds(t2.sec, t2.nsec, req.expiryDuration),
     Features |-> req.Features,
     HardwareIDs |-> req.HardwareIDs,
     Signature |-> <<>>]

\* GenerateLicense (v2): binary encoding, signature, concatenation
GenerateLicense(req, t1, t2, privateKey) ==
    LET licenseData == EncodeLicense(NewLicense(req, t1, t2))
    IN  licenseData \o SignData(licenseData, privateKey)

\* GenerateLicense of the v1.x releases: JSON text, signature, concatenation
GenerateLicenseV1(req, t1, t2, privateKey) ==
    LET licenseData == JsonMarshal(NewLicense(req, t1, t2))
    IN  licenseData \o SignData(licenseData, privateKey)

\* the License release 1.0 builds: no serial number
NewLicenseV10(req, t1, t2) ==
    [NewLicense(req, t1, t2) EXCEPT !.SerialNumber = <<>>]

\* GenerateLicense of release 1.0: the JSON text of its License, signature,
\* concatenation
GenerateLicenseV10(req, t1, t2, privateKey) ==
    LET licenseData == JsonMarshalV10(NewLicenseV10(req, t1, t2))
    IN  licenseData \o SignData(licenseData, privateKey)

----------------------------------------------------------------------------
(* pkg/licverify: hardware.go *)

\* the identifier getDiskIDs reports when the system names no disk
DiskFallback == <<102, 98>>

\* getMACAddresses: an error when the interfaces cannot be listed or none
\* is up, non-loopback and has a hardware address
getMACAddresses(m) ==
    IF m.ifaceErr \/ m.macs = <<>> THEN [ok |-> FALSE, val |-> <<>>]
    ELSE [ok |-> TRUE, val |-> m.macs]

\* getDiskIDs: never an error
getDiskIDs(m) == IF m.disks = <<>> THEN <<DiskFallback>> ELSE m.disks

\* GetHardwareInfo
GetHardwareInfo(m) ==
    LET macs == getMACAddresses(m)
    IN  IF ~macs.ok THEN [ok |-> FALSE]
        ELSE IF m.hostnameErr THEN [ok |-> FALSE]
        ELSE [ok |-> TRUE,
              MACAddresses |-> macs.val,
              DiskIDs |-> getDiskIDs(m),
              Hostname |-> m.hostname]

----------------------------------------------------------------------------
(* pkg/licverify: license.go *)

RECURSIVE contains(_, _)
\* contains: the loop over slice
contains(slice, item) ==
    IF slice = <<>> THEN FALSE
    ELSE IF Head(slice) = item THEN TRUE
    ELSE contains(Tail(slice), item)

\* a containsAny that looks at the first string of slice1 only
containsFirst(slice1, slice2) ==
    slice1 # <<>> /\ contains(slice2, Head(slice1))

RECURSIVE containsAny(_, _)
\* containsAny: the loop over slice1, the inner loop over slice2
containsAny(slice1, slice2) ==
    IF slice1 = <<>> THEN FALSE
    ELSE IF contains(slice2, Head(slice1)) THEN TRUE
    ELSE containsAny(Tail(slice1), slice2)

\* the result of a LoadLicense that returned an error
LoadFailed == [ok |-> FALSE, lic |-> ZeroLicense, path |-> "none", tried |-> <<>>]

\* a LoadLicense that does not look at the error of json.Unmarshal
LoadLicenseUnchecked(data) ==
    IF Len(data) < SignatureSize THEN LoadFailed
    ELSE LET licenseData == SubSeq(data, 1, Len(data) - SignatureSize)
             signature == SubSeq(data, Len(data) - SignatureSize + 1, Len(data))
             importedLicense == DecodeLicense(licenseData)
             legacy == JsonUnmarshal(licenseData)
         IN  IF ~importedLicense.ok
             THEN [ok |-> TRUE,
                   lic |-> [legacy.lic EXCEPT !.Signature = signature],
                   path |-> "json", tried |-> <<"binary", "json">>]
             ELSE [ok |-> TRUE,
                   lic |-> [importedLicense.lic EXCEPT !.Signature = signature],
                   path |-> "binary", tried |-> <<"binary">>]

\* a LoadLicense that tries the JSON decoder first
LoadLicenseJsonFirst(data) ==
    IF Len(data) < SignatureSize THEN LoadFailed
    ELSE LET licenseData == SubSeq(data, 1, Len(data) - SignatureSize)
             signature == SubSeq(data, Len(data) - SignatureSize + 1, Len(data))
             importedLicense == DecodeLicense(licenseData)
             legacy == JsonUnmarshal(licenseData)
         IN  IF legacy.ok
             THEN [ok |-> TRUE,
                   lic |-> [legacy.lic EXCEPT !.Signature = signature],
                   path |-> "json", tried |-> <<"json">>]
             ELSE IF ~importedLicense.ok
             THEN [LoadFailed EXCEPT !.tried = <<"json", "binary">>]
             ELSE [ok |-> TRUE,
                   lic |-> [importedLicense.lic EXCEPT !.Signature = signature],
                   path |-> "binary", tried |-> <<"json", "binary">>]

\* Verifier.LoadLicense on the bytes of the file; path records the decoder
\* that produced the license, tried the decoders that were called, in order
LoadLicense(data) ==
    IF Len(data) < SignatureSize THEN LoadFailed
    ELSE LET licenseData == SubSeq(data, 1, Len(data) - SignatureSize)
             signature == SubSeq(data, Len(data) - SignatureSize + 1, Len(data))
             importedLicense == DecodeLicense(licenseData)
             legacy == JsonUnmarshal(licenseData)
         IN  IF ~importedLicense.ok
             THEN IF ~legacy.ok
                  THEN [LoadFailed EXCEPT !.tried = <<"binary", "json">>]
                  ELSE [ok |-> TRUE,
                        lic |-> [legacy.lic EXCEPT !.Signature = signature],
                        path |-> "json", tried |-> <<"binary", "json">>]
             ELSE [ok |-> TRUE,
                   lic |-> [importedLicense.lic EXCEPT !.Signature = signature],
                   path |-> "binary", tried |-> <<"binary">>]

ErrNone == "nil"
ErrSignature == "invalid license signature"
ErrHardwareInfo == "failed to get hardware info"
ErrMAC == "MAC address mismatch"
ErrDisk == "disk ID mismatch"
ErrHostname == "hostname mismatch"
ErrExpired == "license expired"

\* the encoding whose signature Verifier.VerifySignature accepted: "binary",
\* "json", or "none" when it returns the error
SignatureAccepted(license, publicKey) ==
    LET licenseCopy == [license EXCEPT !.Signature = <<>>]
        licenseData == EncodeLicense(licenseCopy)
        jsonData == JsonMarshal(licenseCopy)
    IN  IF VerifyPKCS1v15(publicKey, Sum256(licenseData), license.Signature)
        THEN "binary"
        ELSE IF VerifyPKCS1v15(publicKey, Sum256(jsonData), license.Signature)
        THEN "json"
        ELSE "none"

\* Verifier.VerifySignature
VerifySignature(license, publicKey) ==
    IF SignatureAccepted(license, publicKey) = "none" THEN ErrSignature
    ELSE ErrNone

\* a hardware check that is content with one matching dimension
VerifyHardwareBindingAny(license, m) ==
    LET hwInfo == GetHardwareInfo(m)
        hw == license.HardwareIDs
    IN  IF ~hwInfo.ok THEN ErrHardwareInfo
        ELSE IF Len(hw.MACAddresses) > 0
                /\ containsAny(hwInfo.MACAddresses, hw.MACAddresses)
        THEN ErrNone
        ELSE IF Len(hw.DiskIDs) > 0 /\ containsAny(hwInfo.DiskIDs, hw.DiskIDs)
        THEN ErrNone
        ELSE IF Len(hw.HostNames) > 0 /\ contains(hw.HostNames, hwInfo.Hostname)
        THEN ErrNone
        ELSE IF Len(hw.MACAddresses) > 0 THEN ErrMAC
        ELSE IF Len(hw.DiskIDs) > 0 THEN ErrDisk
        ELSE IF Len(hw.HostNames) > 0 THEN ErrHostname
        ELSE ErrNone

\* a hardware check that also looks for the custom IDs among the disk IDs
VerifyHardwareBindingCustom(license, m) ==
    LET hwInfo == GetHardwareInfo(m)
    IN  IF ~hwInfo.ok THEN ErrHardwareInfo
        ELSE IF /\ Len(license.HardwareIDs.MACAddresses) > 0
                /\ ~containsAny(hwInfo.MACAddresses, license.HardwareIDs.MACAddresses)
        THEN ErrMAC
        ELSE IF /\ Len(license.HardwareIDs.DiskIDs) > 0
                /\ ~containsAny(hwInfo.DiskIDs, license.HardwareIDs.DiskIDs)
        THEN ErrDisk
        ELSE IF /\ Len(license.HardwareIDs.CustomIDs) > 0
                /\ ~containsAny(hwInfo.DiskIDs, license.HardwareIDs.CustomIDs)
        THEN ErrDisk
        ELSE IF /\ Len(license.HardwareIDs.HostNames) > 0
                /\ ~contains(license.HardwareIDs.HostNames, hwInfo.Hostname)
        THEN ErrHostname
        ELSE ErrNone

\* Verifier.VerifyHardwareBinding on machine m
VerifyHardwareBinding(license, m) ==
    LET hwInfo == GetHardwareInfo(m)
    IN  IF ~hwInfo.ok THEN ErrHardwareInfo
        ELSE IF /\ Len(license.HardwareIDs.MACAddresses) > 0
                /\ ~containsAny(hwInfo.MACAddresses, license.HardwareIDs.MACAddresses)
        THEN ErrMAC
        ELSE IF /\ Len(license.HardwareIDs.DiskIDs) > 0
                /\ ~containsAny(hwInfo.DiskIDs, license.HardwareIDs.DiskIDs)
        THEN ErrDisk
        ELSE IF /\ Len(license.HardwareIDs.HostNames) > 0
                /\ ~contains(license.HardwareIDs.HostNames, hwInfo.Hostname)
        THEN ErrHostname
        ELSE ErrNone

\* an expiry check that fails from the expiry instant on
VerifyExpiryFromInstant(license, t) ==
    IF ~After(license.ExpiryDate, t) THEN ErrExpired ELSE ErrNone

\* Verifier.VerifyExpiry when time.Now() returns t
VerifyExpiry(license, t) ==
    IF After(t, license.ExpiryDate) THEN ErrExpired ELSE ErrNone

\* an IsValid that checks the expiry before the hardware
IsValidExpiryFirst(license, publicKey, m, t) ==
    LET sig == VerifySignature(license, publicKey)
        hw == VerifyHardwareBinding(license, m)
        exp == VerifyExpiry(license, t)
    IN  IF sig # ErrNone THEN [err |-> sig, checks |-> <<"signature">>]
        ELSE IF exp # ErrNone
        THEN [err |-> exp, checks |-> <<"signature", "expiry">>]
        ELSE [err |-> hw, checks |-> <<"signature", "expiry", "hardware">>]

\* an IsValid that never looks at the expiry date
IsValidUnexpiring(license, publicKey, m, t) ==
    LET sig == VerifySignature(license, publicKey)
        hw == VerifyHardwareBinding(license, m)
    IN  IF sig # ErrNone THEN [err |-> sig, checks |-> <<"signature">>]
        ELSE [err |-> hw, checks |-> <<"signature", "hardware">>]

\* an IsValid that refuses a license issued after the time of the call
IsValidIssued(license, publicKey, m, t) ==
    LET sig == VerifySignature(license, publicKey)
        hw == VerifyHardwareBinding(license, m)
        exp == VerifyExpiry(license, t)
    IN  IF sig # ErrNone THEN [err |-> sig, checks |-> <<"signature">>]
        ELSE IF After(license.IssueDate, t)
        THEN [err |-> ErrExpired, checks |-> <<"signature", "issue">>]
        ELSE IF hw # ErrNone
        THEN [err |-> hw, checks |-> <<"signature", "hardware">>]
        ELSE [err |-> exp, checks |-> <<"signature", "hardware", "expiry">>]

\* License.IsValid: the error returned and the checks performed, in order
IsValid(license, publicKey, m, t) ==
    LET sig == VerifySignature(license, publicKey)
        hw == VerifyHardwareBinding(license, m)
        exp == VerifyExpiry(license, t)
    IN  IF sig # ErrNone THEN [err |-> sig, checks |-> <<"signature">>]
        ELSE IF hw # ErrNone
        THEN [err |-> hw, checks |-> <<"signature", "hardware">>]
        ELSE [err |-> exp, checks |-> <<"signature", "hardware", "expiry">>]

----------------------------------------------------------------------------
(* Enumerated inputs *)

RECURSIVE SeqsUpTo(_, _)
\* the sequences over S of length at most n
SeqsUpTo(S, n) ==
    IF n = 0 THEN {<<>>}
    ELSE LET R == SeqsUpTo(S, n - 1)
         IN  R \cup {Append(s, x) : s \in R, x \in S}

\* the strings of the enumerated payloads
Strs == SeqsUpTo({97}, MaxStrLen)

\* the string lists of the enumerated payloads
Lists == SeqsUpTo(Strs, MaxList)

\* the largest length and count a uint16 field holds
MaxWidth == 65535

\* a payload whose ID is one byte longer than its length field can say
WidePayload ==
    [ID |-> [i \in 1..(MaxWidth + 1) |-> 97],
     CustomerID |-> <<99>>,
     ProductID |-> <<>>,
     SerialNumber |-> <<115, 110>>,
     IssueDate |-> Time(I64(3), 0),
     ExpiryDate |-> Time(I64(300), 0),
     Features |-> <<>>,
     HardwareIDs |-> [MACAddresses |-> <<>>, DiskIDs |-> <<>>,
                      HostNames |-> <<>>, CustomIDs |-> <<>>]]

\* the payloads handed to the codec: short strings and lists, an ID that is
\* no valid UTF-8, a two-byte string at the very end, and the wide payload
CodecPayloads ==
    {WidePayload} \cup
    [ID : Strs \cup {<<255>>},
     CustomerID : {<<99>>},
     ProductID : {<<>>},
     SerialNumber : {<<115, 110>>},
     IssueDate : {Time(I64(3), 0)},
     ExpiryDate : {Time(I64(300), 0), Time(I64(70000), 7)},
     Features : Lists,
     HardwareIDs : [MACAddresses : Lists,
                    DiskIDs : {<<>>},
                    HostNames : {<<>>, <<<<104>>>>},
                    CustomIDs : Lists \cup {<<<<120, 121>>>>}]]

\* key pairs
Keys == 1..NumKeys

M1 == <<77, 49>>
M2 == <<77, 50>>
M3 == <<77, 51>>
D1 == <<68, 49>>
H1 == <<72, 49>>
H2 == <<72, 50>>
H3 == <<72, 51>>

\* what the issuer is asked for: the arguments of GenerateLicense
Requests ==
    [ID : {<<76, 49>>},
     CustomerID : {<<67, 49>>},
     ProductID : {<<80, 49>>},
     SerialNumber : {<<83, 49>>},
     expiryDuration : {1},
     Features : {<<<<98>>>>},
     HardwareIDs : [MACAddresses : {<<>>, <<M1>>, <<M3, M2>>},
                    DiskIDs : {<<>>, <<D1>>},
                    HostNames : {<<>>, <<H1>>},
                    CustomIDs : {<<>>}]]
    \cup
    [ID : {<<76, 50>>},
     CustomerID : {<<67, 49>>},
     ProductID : {<<>>},
     SerialNumber : {<<83, 49>>},
     expiryDuration : {3},
     Features : {<<>>},
     HardwareIDs : [MACAddresses : {<<>>},
                    DiskIDs : {<<>>},
                    HostNames : {<<>>, <<H3, H1>>},
                    CustomIDs : {<<<<67>>>>, <<<<67>>, <<>>>>}]]

\* the requests behind the files that are changed on their way
FileRequests ==
    {r \in Requests :
        \/ r.HardwareIDs.CustomIDs # <<>> /\ r.HardwareIDs.HostNames = <<>>
        \/ /\ r.HardwareIDs.MACAddresses = <<M1>>
           /\ r.HardwareIDs.DiskIDs = <<>>
           /\ r.HardwareIDs.HostNames = <<H1>>}

\* what the operating system may report
Machines ==
    [ifaceErr : {FALSE},
     macs : {<<>>, <<M1>>, <<M1, M2>>},
     disks : {<<>>, <<D1>>},
     hostname : {H1, H2},
     hostnameErr : {FALSE}]
    \cup {[ifaceErr |-> TRUE, macs |-> <<>>, disks |-> <<D1>>,
           hostname |-> H1, hostnameErr |-> FALSE],
          [ifaceErr |-> FALSE, macs |-> <<M1>>, disks |-> <<D1>>,
           hostname |-> <<>>, hostnameErr |-> TRUE]}

\* the machine of the runs that do not look at the hardware
PlainMachine ==
    [ifaceErr |-> FALSE, macs |-> <<M1>>, disks |-> <<D1>>,
     hostname |-> H1, hostnameErr |-> FALSE]

\* the first reading of the clock
StartClock == [sec |-> 1000, nsec |-> 0]

\* the clock half a second later
NextClock(t) ==
    IF t.nsec = 0 THEN [sec |-> t.sec, nsec |-> 5]
    ELSE [sec |-> t.sec + 1, nsec |-> 0]

----------------------------------------------------------------------------
(* The license file from the issuer to the verifier *)

NoIssue == [kind |-> "none"]

NoEdit == [kind |-> "none", pos |-> 0]

NotLoaded == [called |-> FALSE, ok |-> FALSE, lic |-> ZeroLicense, path |-> "none",
              tried |-> <<>>]

NoCall == [op |-> "none", err |-> ErrNone, checks |-> <<>>, via |-> "none",
           at |-> StartClock]

\* nothing issued, loaded or verified yet
LifeIdle ==
    /\ order \in {r \in FileRequests : r.HardwareIDs.CustomIDs = <<>>}
    /\ file = <<>>
    /\ issued = NoIssue
    /\ edit = NoEdit
    /\ pub = 1
    /\ loaded = NotLoaded
    /\ res = NoCall
    /\ machine = PlainMachine
    /\ now = StartClock
    /\ ticks = 0

CodecIdle ==
    /\ encIn = ZeroLicense
    /\ encOut = <<>>
    /\ decOut = [ok |-> FALSE]
    /\ cpc = "idle"

\* a Verifier for the first public key, on one of the machines
Init ==
    /\ CodecIdle
    /\ order \in Requests
    /\ file = <<>>
    /\ issued = NoIssue
    /\ edit = NoEdit
    /\ pub = 1
    /\ loaded = NotLoaded
    /\ res = NoCall
    /\ machine \in Machines
    /\ now = StartClock
    /\ ticks = 0

\* a Verifier for the first public key
FileInit ==
    /\ CodecIdle
    /\ order \in FileRequests
    /\ file = <<>>
    /\ issued = NoIssue
    /\ edit = NoEdit
    /\ pub = 1
    /\ loaded = NotLoaded
    /\ res = NoCall
    /\ machine = PlainMachine
    /\ now = StartClock
    /\ ticks = 0

\* a Verifier for any of the public keys
KeysInit ==
    /\ CodecIdle
    /\ order \in {r \in FileRequests : r.HardwareIDs.CustomIDs = <<>>}
    /\ file = <<>>
    /\ issued = NoIssue
    /\ edit = NoEdit
    /\ pub \in Keys
    /\ loaded = NotLoaded
    /\ res = NoCall
    /\ machine = PlainMachine
    /\ now = StartClock
    /\ ticks = 0

\* licforge genlicense: GenerateLicense, whose second reading of the clock may
\* be later than its first, then SaveLicenseToFile
Issue ==
    /\ issued.kind = "none"
    /\ \E key \in Keys, t2 \in {now, NextClock(now)} :
          /\ file' = GenerateLicense(order, now, t2, key)
          /\ issued' = [kind |-> "binary", key |-> key,
                        lic |-> NewLicense(order, now, t2)]
          /\ now' = t2
    /\ UNCHANGED <<order, edit, pub, loaded, res, machine, ticks>>
    /\ UNCHANGED cvars

\* a license file of the v1.x releases
IssueV1 ==
    /\ issued.kind = "none"
    /\ \E key \in Keys, t2 \in {now, NextClock(now)} :
          /\ file' = GenerateLicenseV1(order, now, t2, key)
          /\ issued' = [kind |-> "legacy", key |-> key,
                        lic |-> NewLicense(order, now, t2)]
          /\ now' = t2
    /\ UNCHANGED <<order, edit, pub, loaded, res, machine, ticks>>
    /\ UNCHANGED cvars

\* a license file of release 1.0
IssueV10 ==
    /\ issued.kind = "none"
    /\ \E key \in Keys, t2 \in {now, NextClock(now)} :
          /\ file' = GenerateLicenseV10(order, now, t2, key)
          /\ issued' = [kind |-> "legacy-1.0", key |-> key,
                        lic |-> NewLicenseV10(order, now, t2)]
          /\ now' = t2
    /\ UNCHANGED <<order, edit, pub, loaded, res, machine, ticks>>
    /\ UNCHANGED cvars

\* the lengths a file may be cut to
CutLengths == {0, SignatureSize - 1, SignatureSize, SignatureSize + 1}

\* only the first n bytes of the file arrive
Cut ==
    /\ issued.kind # "none"
    /\ edit = NoEdit
    /\ ~loaded.called
    /\ \E n \in CutLengths :
          /\ n < Len(file)
          /\ file' = SubSeq(file, 1, n)
          /\ edit' = [kind |-> "cut", pos |-> n]
    /\ UNCHANGED <<order, issued, pub, loaded, res, machine, now, ticks>>
    /\ UNCHANGED cvars

\* the values one element of the file may be changed to: another byte for a
\* byte, another digest for the digest of the signature; a changed signature
\* is never the signature of another key
TamperValues(f, i) ==
    IF i = Len(f) THEN {<<>>, <<0>> \o f[i]}
    ELSE IF i > Len(f) - SignatureSize THEN {255 - f[i]}
    ELSE {255 - f[i], (f[i] + 1) % 256}

\* somebody changes one byte of the file
Tamper ==
    /\ issued.kind # "none"
    /\ edit = NoEdit
    /\ ~loaded.called
    /\ \E i \in 1..Len(file) : \E v \in TamperValues(file, i) :
          /\ file' = [file EXCEPT ![i] = v]
          /\ edit' = [kind |-> "byte", pos |-> i]
    /\ UNCHANGED <<order, issued, pub, loaded, res, machine, now, ticks>>
    /\ UNCHANGED cvars

\* somebody replaces the JSON text of a legacy file by the binary encoding of
\* the same fields and keeps the signature
Repackage ==
    /\ issued.kind = "legacy"
    /\ edit = NoEdit
    /\ ~loaded.called
    /\ \E old \in {LoadLicense(file)} :
          /\ old.ok
          /\ file' = EncodeLicense(old.lic) \o old.lic.Signature
    /\ edit' = [kind |-> "repack", pos |-> 0]
    /\ UNCHANGED <<order, issued, pub, loaded, res, machine, now, ticks>>
    /\ UNCHANGED cvars

\* verifier.LoadLicense(path)
LoadLicenseCall ==
    /\ issued.kind # "none"
    /\ ~loaded.called
    /\ \E r \in {LoadLicense(file)} :
          loaded' = [called |-> TRUE, ok |-> r.ok, lic |-> r.lic, path |-> r.path,
                     tried |-> r.tried]
    /\ UNCHANGED <<order, file, issued, edit, pub, res, machine, now, ticks>>
    /\ UNCHANGED cvars

\* verifier.VerifySignature(license)
VerifySignatureCall ==
    /\ loaded.ok
    /\ res' = [op |-> "VerifySignature",
               err |-> VerifySignature(loaded.lic, pub),
               checks |-> <<"signature">>,
               via |-> SignatureAccepted(loaded.lic, pub),
               at |-> now]
    /\ UNCHANGED <<order, file, issued, edit, pub, loaded, machine, now, ticks>>
    /\ UNCHANGED cvars

\* verifier.VerifyHardwareBinding(license)
VerifyHardwareBindingCall ==
    /\ loaded.ok
    /\ res' = [op |-> "VerifyHardwareBinding",
               err |-> VerifyHardwareBinding(loaded.lic, machine),
               checks |-> <<"hardware">>,
               via |-> "none",
               at |-> now]
    /\ UNCHANGED <<order, file, issued, edit, pub, loaded, machine, now, ticks>>
    /\ UNCHANGED cvars

\* verifier.VerifyExpiry(license)
VerifyExpiryCall ==
    /\ loaded.ok
    /\ res' = [op |-> "VerifyExpiry",
               err |-> VerifyExpiry(loaded.lic, Now(now.sec, now.nsec)),
               checks |-> <<"expiry">>,
               via |-> "none",
               at |-> now]
    /\ UNCHANGED <<order, file, issued, edit, pub, loaded, machine, now, ticks>>
    /\ UNCHANGED cvars

\* license.IsValid(verifier)
IsValidCall ==
    /\ loaded.ok
    /\ \E r \in {IsValid(loaded.lic, pub, machine, Now(now.sec, now.nsec))} :
          res' = [op |-> "IsValid", err |-> r.err, checks |-> r.checks,
                  via |-> "none", at |-> now]
    /\ UNCHANGED <<order, file, issued, edit, pub, loaded, machine, now, ticks>>
    /\ UNCHANGED cvars

\* time passes after the license was issued
Tick ==
    /\ issued.kind # "none"
    /\ ticks < MaxTicks
    /\ now' = NextClock(now)
    /\ ticks' = ticks + 1
    /\ UNCHANGED <<order, file, issued, edit, pub, loaded, res, machine>>
    /\ UNCHANGED cvars

\* issuing, loading and verifying on one machine
Next ==
    \/ Issue
    \/ LoadLicenseCall
    \/ VerifySignatureCall
    \/ VerifyHardwareBindingCall
    \/ VerifyExpiryCall
    \/ IsValidCall
    \/ Tick

Spec == Init /\ [][Next]_vars

\* key pairs of every size
SpecKeys == KeysInit /\ [][Next]_vars

\* files of both formats, changed on the way to the verifier
FileNext ==
    \/ Issue
    \/ IssueV1
    \/ IssueV10
    \/ Cut
    \/ Tamper
    \/ Repackage
    \/ LoadLicenseCall
    \/ VerifySignatureCall

SpecFile == FileInit /\ [][FileNext]_vars

----------------------------------------------------------------------------
(* The license in the memory of the application *)

\* a request for a license of the machine, valid for a second or three or,
\* with a negative duration, until a second before it is issued, that arrives
\* at the start or in the middle of a second
TrustInit ==
    /\ CodecIdle
    /\ order \in [ID : {<<76, 49>>},
                  CustomerID : {<<67, 49>>},
                  ProductID : {<<80, 49>>},
                  SerialNumber : {<<83, 49>>},
                  expiryDuration : {-1, 1, 3},
                  Features : {<<<<98>>>>},
                  HardwareIDs : [MACAddresses : {<<>>, <<M1>>},
                                 DiskIDs : {<<>>},
                                 HostNames : {<<>>, <<H1>>, <<H2>>},
                                 CustomIDs : {<<>>}]]
    /\ file = <<>>
    /\ issued = NoIssue
    /\ edit = NoEdit
    /\ pub = 1
    /\ loaded = NotLoaded
    /\ res = NoCall
    /\ machine = PlainMachine
    /\ now \in {StartClock, NextClock(StartClock)}
    /\ ticks = 0

\* the application changes one field of the License it found valid and
\* leaves the Signature: the expiry date later within its second, the expiry
\* date or the issue date ten seconds from now, a longer ID, one more feature
Modify ==
    /\ loaded.ok
    /\ edit = NoEdit
    /\ res.op = "IsValid"
    /\ res.err = ErrNone
    /\ \E k \in 1..5 :
          /\ loaded' = [loaded EXCEPT !.lic =
                CASE k = 1 -> [@ EXCEPT !.ExpiryDate.nsec = 5]
                  [] k = 2 -> [@ EXCEPT !.ExpiryDate = AddSeconds(now.sec, now.nsec, 10)]
                  [] k = 3 -> [@ EXCEPT !.IssueDate = AddSeconds(now.sec, now.nsec, 10)]
                  [] k = 4 -> [@ EXCEPT !.ID = Append(@, 97)]
                  [] k = 5 -> [@ EXCEPT !.Features = Append(@, <<97>>)]]
          /\ edit' = [kind |-> "memory", pos |-> k]
    /\ res' = NoCall
    /\ UNCHANGED <<order, file, issued, pub, machine, now, ticks>>
    /\ UNCHANGED cvars

\* the clock of the verifying machine is set two seconds back
SetBack ==
    /\ issued.kind # "none"
    /\ ticks < MaxTicks
    /\ now.sec >= StartClock.sec
    /\ now' = [now EXCEPT !.sec = @ - 2]
    /\ ticks' = ticks + 1
    /\ UNCHANGED <<order, file, issued, edit, pub, loaded, res, machine>>
    /\ UNCHANGED cvars

TrustNext ==
    \/ Issue
    \/ LoadLicenseCall
    \/ IsValidCall
    \/ Modify
    \/ SetBack
    \/ Tick

SpecTrust == TrustInit /\ [][TrustNext]_vars

----------------------------------------------------------------------------
(* Calls in flight on one Verifier *)

\* a VerifySignature that strips the Signature from the License of the
\* caller and works on that
copyLicenseInPlace(license) ==
    [copy |-> [license EXCEPT !.Signature = <<>>],
     license |-> [license EXCEPT !.Signature = <<>>]]

\* VerifySignature, licenseCopy := *license and licenseCopy.Signature = nil:
\* the copy the call works on, and the License of the caller after it
copyLicense(license) ==
    [copy |-> [license EXCEPT !.Signature = <<>>],
     license |-> license]

\* a Verifier for the first public key and a License loaded from a file of
\* one of the issuers; res holds the calls, none of them begun
ConcInit ==
    /\ CodecIdle
    /\ order \in {r \in FileRequests : r.HardwareIDs.CustomIDs = <<>>}
    /\ \E key \in Keys :
          /\ file = GenerateLicense(order, StartClock, StartClock, key)
          /\ issued = [kind |-> "binary", key |-> key,
                       lic |-> NewLicense(order, StartClock, StartClock)]
    /\ \E r \in {LoadLicense(file)} :
          loaded = [called |-> TRUE, ok |-> r.ok, lic |-> r.lic, path |-> r.path,
                    tried |-> r.tried]
    /\ edit = NoEdit
    /\ pub = 1
    /\ res = [c \in 1..NumCalls |->
                [op |-> "none", pc |-> "idle", local |-> <<>>, out |-> <<>>]]
    /\ machine = PlainMachine
    /\ now = StartClock
    /\ ticks = 0

\* a call begins and runs up to its first use of what it shares with the
\* other calls: VerifySignature copies the License, VerifyExpiry reads the
\* clock, LoadLicense reads the file
CallEnter ==
    /\ \E c \in 1..NumCalls :
          /\ res[c].pc = "idle"
          /\ \/ \E r \in {copyLicense(loaded.lic)} :
                   /\ res' = [res EXCEPT ![c] =
                                [op |-> "VerifySignature", pc |-> "entered",
                                 local |-> r.copy, out |-> <<>>]]
                   /\ loaded' = [loaded EXCEPT !.lic = r.license]
             \/ /\ res' = [res EXCEPT ![c] =
                             [op |-> "VerifyExpiry", pc |-> "entered",
                              local |-> now, out |-> <<>>]]
                /\ UNCHANGED loaded
             \/ /\ res' = [res EXCEPT ![c] =
                             [op |-> "LoadLicense", pc |-> "entered",
                              local |-> file, out |-> <<>>]]
                /\ UNCHANGED loaded
    /\ UNCHANGED <<order, file, issued, edit, pub, machine, now, ticks>>
    /\ UNCHANGED cvars

\* a call runs to its end: VerifySignature checks the encoding of its copy
\* against the Signature of the License and the key of the Verifier,
\* VerifyExpiry compares its reading of the clock with the ExpiryDate of the
\* License, LoadLicense decodes what it read
CallLeave ==
    /\ \E c \in 1..NumCalls :
          /\ res[c].pc = "entered"
          /\ res' = [res EXCEPT ![c] =
                [op |-> res[c].op, pc |-> "done", local |-> res[c].local,
                 out |->
                    CASE res[c].op = "VerifySignature" ->
                            VerifySignature(
                                [res[c].local EXCEPT !.Signature = loaded.lic.Signature],
                                pub)
                      [] res[c].op = "VerifyExpiry" ->
                            VerifyExpiry(loaded.lic,
                                         Now(res[c].local.sec, res[c].local.nsec))
                      [] res[c].op = "LoadLicense" ->
                            LoadLicense(res[c].local)]]
    /\ UNCHANGED <<order, file, issued, edit, pub, loaded, machine, now, ticks>>
    /\ UNCHANGED cvars

ConcNext ==
    \/ CallEnter
    \/ CallLeave
    \/ Tick

SpecConc == ConcInit /\ [][ConcNext]_vars

----------------------------------------------------------------------------
(* cmd/licforge: main.go *)

\* unicode.IsSpace on the bytes of ASCII text
IsSpace(b) == b \in {9, 10, 11, 12, 13, 32}

RECURSIVE TrimLeft(_)
TrimLeft(s) ==
    IF s # <<>> /\ IsSpace(Head(s)) THEN TrimLeft(Tail(s)) ELSE s

RECURSIVE TrimRight(_)
TrimRight(s) ==
    IF s # <<>> /\ IsSpace(s[Len(s)])
    THEN TrimRight(SubSeq(s, 1, Len(s) - 1))
    ELSE s

\* strings.TrimSpace
TrimSpace(s) == TrimRight(TrimLeft(s))

\* strings.ToLower on ASCII text
ToLower(s) == [i \in 1..Len(s) |-> IF s[i] \in 65..90 THEN s[i] + 32 ELSE s[i]]

RECURSIVE Split(_)
\* strings.Split(s, ",")
Split(s) ==
    IF \A i \in 1..Len(s) : s[i] # 44 THEN <<s>>
    ELSE LET i == CHOOSE i \in 1..Len(s) :
                      s[i] = 44 /\ \A j \in 1..(i - 1) : s[j] # 44
         IN  <<SubSeq(s, 1, i - 1)>> \o Split(SubSeq(s, i + 1, Len(s)))

RECURSIVE trimmedItems(_)
\* the loop of parseCommaSeparatedList: the trimmed items that are not empty
trimmedItems(items) ==
    IF items = <<>> THEN <<>>
    ELSE (IF TrimSpace(Head(items)) # <<>>
          THEN <<TrimSpace(Head(items))>>
          ELSE <<>>) \o trimmedItems(Tail(items))

\* parseCommaSeparatedList
parseCommaSeparatedList(list) ==
    IF list = <<>> THEN <<>> ELSE trimmedItems(Split(list))

\* promptForInput on the line that was read
promptForInput(line, defaultVal) ==
    IF TrimSpace(line) = <<>> /\ defaultVal # <<>> THEN defaultVal
    ELSE TrimSpace(line)

RECURSIVE digitsValue(_, _)
\* the number the decimal digits s stand for, after acc
digitsValue(s, acc) ==
    IF s = <<>> THEN acc
    ELSE digitsValue(Tail(s), 10 * acc + Head(s) - 48)

\* the digits of s after its sign
unsignedPart(s) == IF s # <<>> /\ Head(s) \in {43, 45} THEN Tail(s) ELSE s

\* strconv.Atoi
Atoi(s) ==
    IF unsignedPart(s) = <<>>
       \/ \E i \in 1..Len(unsignedPart(s)) : unsignedPart(s)[i] \notin 48..57
    THEN [ok |-> FALSE, val |-> 0]
    ELSE [ok |-> TRUE,
          val |-> IF Head(s) = 45 THEN 0 - digitsValue(unsignedPart(s), 0)
                  ELSE digitsValue(unsignedPart(s), 0)]

\* the arguments generateAndSaveLicense is called with; the command that
\* exits before the call is [ok |-> FALSE]
Args(licenseID, customerID, productID, serialNumber, validDays, featuresStr, macAddressesStr, diskIDsStr, hostnamesStr, autoHardware) ==
    [ok |-> TRUE,
     licenseID |-> licenseID,
     customerID |-> customerID,
     productID |-> productID,
     serialNumber |-> serialNumber,
     validDays |-> validDays,
     featuresStr |-> featuresStr,
     macAddressesStr |-> macAddressesStr,
     diskIDsStr |-> diskIDsStr,
     hostnamesStr |-> hostnamesStr,
     autoHardware |-> autoHardware]

\* the validity runInteractiveGeneration takes from the answer
interactiveDays(answer) ==
    IF ~Atoi(answer).ok \/ Atoi(answer).val <= 0 THEN 365
    ELSE Atoi(answer).val

\* runInteractiveGeneration on the lines cl that are typed; the defaults are
\* "365", "basic" and "y", the accepted answers "y" and "yes"
runInteractiveGeneration(cl) ==
    Args(promptForInput(cl.licenseID, <<>>),
         promptForInput(cl.customerID, <<>>),
         promptForInput(cl.productID, <<>>),
         promptForInput(cl.serialNumber, <<>>),
         interactiveDays(promptForInput(cl.validDaysStr, <<51, 54, 53>>)),
         promptForInput(cl.featuresStr, <<98, 97, 115, 105, 99>>),
         promptForInput(cl.macAddressesStr, <<>>),
         promptForInput(cl.diskIDsStr, <<>>),
         promptForInput(cl.hostnamesStr, <<>>),
         ToLower(promptForInput(cl.autoHardwareStr, <<121>>))
             \in {<<121>>, <<121, 101, 115>>})

\* main, case "genlicense": the call of generateAndSaveLicense or the exit
genlicense(cl) ==
    IF cl.interactive THEN runInteractiveGeneration(cl)
    ELSE IF \/ cl.licenseID = <<>>
            \/ cl.customerID = <<>>
            \/ cl.productID = <<>>
            \/ cl.serialNumber = <<>>
         THEN [ok |-> FALSE]
         ELSE Args(cl.licenseID, cl.customerID, cl.productID, cl.serialNumber,
                   cl.validDays, cl.featuresStr, cl.macAddressesStr,
                   cl.diskIDsStr, cl.hostnamesStr, cl.autoHardware)

\* generateAndSaveLicense: the arguments of GenerateLicense, the duration in
\* seconds, the hardware binding from the machine hw or from the lists that
\* were given
licenseRequest(a, hw) ==
    [ID |-> a.licenseID,
     CustomerID |-> a.customerID,
     ProductID |-> a.productID,
     SerialNumber |-> a.serialNumber,
     expiryDuration |-> a.validDays * 24 * 3600,
     Features |-> parseCommaSeparatedList(a.featuresStr),
     HardwareIDs |->
        IF a.autoHardware
        THEN [MACAddresses |-> hw.MACAddresses,
              DiskIDs |-> hw.DiskIDs,
              HostNames |-> <<hw.Hostname>>,
              CustomIDs |-> <<>>]
        ELSE [MACAddresses |-> parseCommaSeparatedList(a.macAddressesStr),
              DiskIDs |-> parseCommaSeparatedList(a.diskIDsStr),
              HostNames |-> parseCommaSeparatedList(a.hostnamesStr),
              CustomIDs |-> <<>>]]

\* licforge genlicense with flags: the values the flag set holds
FlagLines ==
    [interactive : {FALSE},
     licenseID : {<<>>, <<76, 49>>},
     customerID : {<<>>, <<67, 49>>},
     productID : {<<>>, <<80, 49>>},
     serialNumber : {<<>>, <<83, 49>>},
     validDays : {-1, 0, 1, 365},
     featuresStr : {<<98, 44, 32, 44, 99>>},
     macAddressesStr : {<<>>, M1 \o <<44, 32>> \o M2},
     diskIDsStr : {<<>>},
     hostnamesStr : {<<>>, <<44>> \o H1},
     autoHardware : BOOLEAN]

\* licforge genlicense -interactive: the lines that are typed
InteractiveLines ==
    [interactive : {TRUE},
     licenseID : {<<>>, <<76, 49>>},
     customerID : {<<>>, <<67, 49>>},
     productID : {<<>>, <<80, 49>>},
     serialNumber : {<<>>, <<83, 49>>},
     validDaysStr : {<<>>, <<48>>, <<45, 49>>, <<49>>, <<120>>},
     featuresStr : {<<>>},
     macAddressesStr : {<<>>, <<32>> \o M1},
     diskIDsStr : {<<>>},
     hostnamesStr : {<<>>},
     autoHardwareStr : {<<>>, <<110>>, <<89, 69, 83>>}]

\* a command line on a machine with or without a network interface, nothing
\* written yet
CliInit ==
    /\ CodecIdle
    /\ order \in FlagLines \cup InteractiveLines
    /\ file = <<>>
    /\ issued = NoIssue
    /\ edit = NoEdit
    /\ pub = 1
    /\ loaded = NotLoaded
    /\ res = NoCall
    /\ machine \in {PlainMachine, [PlainMachine EXCEPT !.macs = <<>>]}
    /\ now = StartClock
    /\ ticks = 0

\* licforge genlicense: the command exits before it writes, or
\* generateAndSaveLicense calls GenerateLicense and SaveLicenseToFile
Genlicense ==
    /\ issued.kind = "none"
    /\ \E a \in {genlicense(order)}, hw \in {GetHardwareInfo(machine)} :
          IF ~a.ok \/ (a.autoHardware /\ ~hw.ok)
          THEN /\ issued' = [kind |-> "refused"]
               /\ UNCHANGED <<file, now>>
          ELSE \E key \in Keys, t2 \in {now, NextClock(now)},
                  req \in {licenseRequest(a, hw)} :
                  /\ file' = GenerateLicense(req, now, t2, key)
                  /\ issued' = [kind |-> "binary", key |-> key,
                                lic |-> NewLicense(req, now, t2)]
                  /\ now' = t2
    /\ UNCHANGED <<order, edit, pub, loaded, res, machine, ticks>>
    /\ UNCHANGED cvars

\* SaveLicenseToFile, that is os.WriteFile, on a path that holds old: when
\* the file is opened it is truncated, then written bytes of licenseData
\* reach it before the write ends or fails
SaveLicenseToFile(old, licenseData, opened, written) ==
    IF ~opened THEN old ELSE SubSeq(licenseData, 1, written)

\* licforge genlicense is run once more with the same output path and
\* SaveLicenseToFile fails: the file cannot be opened, or the write stops
\* before the last byte
GenlicenseInterrupted ==
    /\ issued.kind = "binary"
    /\ edit = NoEdit
    /\ ~loaded.called
    /\ \E a \in {genlicense(order)}, hw \in {GetHardwareInfo(machine)} :
          \E data \in {GenerateLicense(licenseRequest(a, hw), now, now, issued.key)},
             opened \in BOOLEAN, written \in {0, 1, SignatureSize} :
                /\ written < Len(data)
                /\ opened \/ written = 0
                /\ file' = SaveLicenseToFile(file, data, opened, written)
                /\ edit' = [kind |-> IF opened THEN "save-failed" ELSE "open-failed",
                            pos |-> written]
    /\ UNCHANGED <<order, issued, pub, loaded, res, machine, now, ticks>>
    /\ UNCHANGED cvars

CliNext ==
    \/ Genlicense
    \/ GenlicenseInterrupted
    \/ LoadLicenseCall
    \/ VerifySignatureCall

SpecCli == CliInit /\ [][CliNext]_vars

----------------------------------------------------------------------------
(* The codec on its own *)

NoBytes == <<>>

CodecInit ==
    /\ encIn \in CodecPayloads
    /\ encOut = NoBytes
    /\ decOut = NoData
    /\ cpc = "init"
    /\ LifeIdle

CodecEncode ==
    /\ cpc = "init"
    /\ encOut' = EncodeLicenseData(encIn)
    /\ cpc' = "encoded"
    /\ UNCHANGED <<encIn, decOut>>
    /\ UNCHANGED lvars

\* the encoding loses up to MaxCut bytes at its end
CodecTruncate ==
    /\ cpc = "encoded"
    /\ \E k \in 1..Min(MaxCut, Len(encOut)) :
          encOut' = SubSeq(encOut, 1, Len(encOut) - k)
    /\ cpc' = "truncated"
    /\ UNCHANGED <<encIn, decOut>>
    /\ UNCHANGED lvars

\* one byte of the header's length field is overwritten, or one more byte
\* follows the encoding
CodecAlter ==
    /\ cpc = "encoded"
    /\ \/ \E i \in 2..headerSize :
             /\ encOut[i] # 255
             /\ encOut' = [encOut EXCEPT ![i] = 255]
       \/ \E b \in {0, 97} : encOut' = Append(encOut, b)
    /\ cpc' = "altered"
    /\ UNCHANGED <<encIn, decOut>>
    /\ UNCHANGED lvars

CodecDecode ==
    /\ cpc \in {"encoded", "truncated", "altered"}
    /\ decOut' = DecodeLicenseData(encOut)
    /\ cpc' = CASE cpc = "encoded" -> "decoded"
                [] cpc = "truncated" -> "decoded-truncated"
                [] cpc = "altered" -> "decoded-altered"
    /\ UNCHANGED <<encIn, encOut>>
    /\ UNCHANGED lvars

CodecNext == CodecEncode \/ CodecTruncate \/ CodecAlter \/ CodecDecode

SpecCodec == CodecInit /\ [][CodecNext]_vars

\* the payloads whose encodings are compared with one another: they differ in
\* neighbouring strings, in the dates and their sub-second parts, and in how
\* the same strings are spread over lists
PairPayloads ==
    [ID : Strs,
     CustomerID : {<<>>, <<97>>},
     ProductID : {<<>>},
     SerialNumber : {<<>>},
     IssueDate : {Time(I64(3), 0), Time(I64(4), 0)},
     ExpiryDate : {Time(I64(300), 0), Time(I64(300), 7)},
     Features : Lists,
     HardwareIDs : [MACAddresses : {<<>>},
                    DiskIDs : {<<>>},
                    HostNames : {<<>>},
                    CustomIDs : {<<>>, <<<<97>>>>}]]

EncodeInit ==
    /\ encIn \in PairPayloads
    /\ encOut = NoBytes
    /\ decOut = NoData
    /\ cpc = "init"
    /\ LifeIdle

SpecEncode == EncodeInit /\ [][CodecEncode]_vars

----------------------------------------------------------------------------
(* Claims about the codec *)

\* the strings of a list
SetOf(list) == {list[i] : i \in 1..Len(list)}

\* the strings and the lists of payload p
StringsOf(p) ==
    {p.ID, p.CustomerID, p.ProductID, p.SerialNumber}
        \cup SetOf(p.Features) \cup SetOf(p.HardwareIDs.MACAddresses)
        \cup SetOf(p.HardwareIDs.DiskIDs) \cup SetOf(p.HardwareIDs.HostNames)
        \cup SetOf(p.HardwareIDs.CustomIDs)
ListsOf(p) ==
    {p.Features, p.HardwareIDs.MACAddresses, p.HardwareIDs.DiskIDs,
     p.HardwareIDs.HostNames, p.HardwareIDs.CustomIDs}

\* every string and list of p fits its uint16 length or count field
WithinWidths(p) ==
    /\ \A x \in StringsOf(p) : Len(x) <= MaxWidth
    /\ \A l \in ListsOf(p) : Len(l) <= MaxWidth

\* a decoded payload equal to p in every field, times at second resolution
SamePayload(p, d) ==
    /\ d.ID = p.ID
    /\ d.CustomerID = p.CustomerID
    /\ d.ProductID = p.ProductID
    /\ d.SerialNumber = p.SerialNumber
    /\ d.Features = p.Features
    /\ d.HardwareIDs = p.HardwareIDs
    /\ SameSecond(d.IssueDate, p.IssueDate)
    /\ SameSecond(d.ExpiryDate, p.ExpiryDate)

\* C1: round trip - for every payload within the field widths,
\* DecodeLicenseData(EncodeLicenseData(p)) succeeds and returns a payload
\* equal to p in every field (times at second resolution).
C1_RoundTrip ==
    (cpc = "decoded" /\ WithinWidths(encIn))
        => decOut.ok /\ SamePayload(encIn, decOut)

----------------------------------------------------------------------------
(* Claims about verification *)

\* the three checks on the loaded license, at the time of the last call
SigErr == VerifySignature(loaded.lic, pub)
HwErr == VerifyHardwareBinding(loaded.lic, machine)
ExpErr == VerifyExpiry(loaded.lic, Now(res.at.sec, res.at.nsec))

\* the error and the checks of a run that performs the checks named by
\* order one after the other and stops at the first that fails
RECURSIVE FirstFailure(_, _, _)
FirstFailure(order3, errs, done) ==
    IF order3 = <<>> THEN [err |-> ErrNone, checks |-> done]
    ELSE IF errs[Head(order3)] # ErrNone
    THEN [err |-> errs[Head(order3)], checks |-> Append(done, Head(order3))]
    ELSE FirstFailure(Tail(order3), errs, Append(done, Head(order3)))

CheckErrs ==
    [c \in {"signature", "expiry", "hardware"} |->
        IF c = "signature" THEN SigErr
        ELSE IF c = "expiry" THEN ExpErr ELSE HwErr]

FilePayload == SubSeq(file, 1, Len(file) - SignatureSize)
FileSignature == SubSeq(file, Len(file) - SignatureSize + 1, Len(file))

\* C3: after a change of any single byte of a file written by GenerateLicense
\* and SaveLicenseToFile, LoadLicense fails or VerifySignature fails.
C3_SingleByteRejected ==
    (issued.kind = "binary" /\ edit.kind = "byte" /\ res.op = "VerifySignature")
        => res.err # ErrNone

\* C4: a loaded license passes VerifySignature if and only if its signature
\* is valid over exactly the payload bytes LoadLicense read from the file.
C4_ExactFileBytes ==
    res.op = "VerifySignature" =>
        (res.err = ErrNone
            <=> VerifyPKCS1v15(pub, Sum256(FilePayload), FileSignature))

\* C5: when LoadLicense decoded the license through the binary decoder and
\* the signature is not valid over the binary encoding, VerifySignature
\* returns an error, whatever the signature is worth over the JSON text.
C5_NoJsonRescue ==
    (/\ res.op = "VerifySignature"
     /\ loaded.path = "binary"
     /\ ~VerifyPKCS1v15(pub,
            Sum256(EncodeLicense([loaded.lic EXCEPT !.Signature = <<>>])),
            loaded.lic.Signature))
        => res.err = ErrSignature

\* the loaded license carries what GenerateLicense was asked for
SameAsOrdered(lic) ==
    /\ lic.ID = order.ID
    /\ lic.CustomerID = order.CustomerID
    /\ lic.ProductID = order.ProductID
    /\ lic.SerialNumber = order.SerialNumber
    /\ lic.Features = order.Features
    /\ lic.HardwareIDs = order.HardwareIDs

\* C6: what GenerateLicense returned and SaveLicenseToFile wrote loads
\* without error under the matching public key, carries the ID, customer,
\* product, serial number, features and hardware lists that were passed in,
\* and passes VerifySignature.
C6_EndToEnd ==
    (issued.kind = "binary" /\ edit = NoEdit /\ issued.key = pub /\ loaded.called)
        => /\ loaded.ok
           /\ SameAsOrdered(loaded.lic)
           /\ (res.op = "VerifySignature" => res.err = ErrNone)

\* C7: a license signed with one private key fails VerifySignature under the
\* public key of another key pair; neither the binary nor the JSON attempt
\* accepts it.
C7_OtherKeyRejected ==
    (issued.kind # "none" /\ issued.key # pub /\ res.op = "VerifySignature")
        => res.err = ErrSignature /\ res.via = "none"

\* VerifySignature has run on an unchanged file signed with another key
C7_Witness ==
    /\ issued.kind = "binary"
    /\ edit = NoEdit
    /\ issued.key # pub
    /\ res.op = "VerifySignature"

\* the binding of the loaded license and what the machine is detected to have
Bound == loaded.lic.HardwareIDs
DetectedMACs == SetOf(machine.macs)
DetectedDisks == SetOf(getDiskIDs(machine))
MacMatches == SetOf(Bound.MACAddresses) \cap DetectedMACs # {}
DiskMatches == SetOf(Bound.DiskIDs) \cap DetectedDisks # {}
HostMatches == machine.hostname \in SetOf(Bound.HostNames)

\* C8: VerifyHardwareBinding succeeds for every license whose MAC, disk,
\* hostname and custom lists are all empty, whatever the machine reports,
\* also when no MAC address is detected or a data source is unavailable.
C8_UnboundPasses ==
    (/\ res.op = "VerifyHardwareBinding"
     /\ Bound.MACAddresses = <<>> /\ Bound.DiskIDs = <<>>
     /\ Bound.HostNames = <<>> /\ Bound.CustomIDs = <<>>)
        => res.err = ErrNone

\* C9: a license passes VerifyHardwareBinding only if every populated
\* dimension matches the machine; a license naming MAC M1 and hostname H1
\* fails on a machine with MAC M1 and hostname H2.
C9_Conjunction ==
    res.op = "VerifyHardwareBinding" =>
        /\ res.err = ErrNone =>
              /\ (Bound.MACAddresses # <<>> => MacMatches)
              /\ (Bound.DiskIDs # <<>> => DiskMatches)
              /\ (Bound.HostNames # <<>> => HostMatches)
        /\ (/\ Bound.MACAddresses = <<M1>> /\ Bound.HostNames = <<H1>>
            /\ M1 \in DetectedMACs /\ machine.hostname = H2)
              => res.err # ErrNone

\* the license names MAC M1 and hostname H1, the machine has MAC M1 and
\* hostname H2, and the check has reported the hostname
C9_Witness ==
    /\ res.op = "VerifyHardwareBinding"
    /\ Bound.MACAddresses = <<M1>> /\ Bound.HostNames = <<H1>>
    /\ M1 \in DetectedMACs /\ machine.hostname = H2
    /\ res.err = ErrHostname

\* C10: for a non-empty license list the MAC dimension matches iff a license
\* MAC is among the detected MACs, the disk dimension iff a license disk ID
\* is among the detected disk IDs, the hostname dimension iff the machine's
\* hostname is in the license's list; an empty list is not checked.
C10_PerDimension ==
    (res.op = "VerifyHardwareBinding" /\ res.err # ErrHardwareInfo) =>
        LET macOk == Bound.MACAddresses = <<>> \/ MacMatches
            diskOk == Bound.DiskIDs = <<>> \/ DiskMatches
            hostOk == Bound.HostNames = <<>> \/ HostMatches
        IN  /\ res.err = ErrMAC <=> ~macOk
            /\ res.err = ErrDisk <=> macOk /\ ~diskOk
            /\ res.err = ErrHostname <=> macOk /\ diskOk /\ ~hostOk
            /\ res.err = ErrNone <=> macOk /\ diskOk /\ hostOk

\* the machine detects two MACs, the license names two, they share the
\* second of each, the disk list is empty and the check has passed
C10_Witness ==
    /\ res.op = "VerifyHardwareBinding"
    /\ Bound.MACAddresses = <<M3, M2>>
    /\ machine.macs = <<M1, M2>>
    /\ Bound.DiskIDs = <<>>
    /\ res.err = ErrNone

----------------------------------------------------------------------------
(* Claims about custom IDs and the expiry boundary *)

\* custom ID lists a license may carry
CustomVariants == {<<>>, <<<<67>>>>, <<D1>>, <<M1, H2>>}

\* the loaded license with its custom IDs replaced by c
WithCustomIDs(c) == [loaded.lic EXCEPT !.HardwareIDs.CustomIDs = c]

\* C11: the result of VerifyHardwareBinding does not depend on the
\* license's CustomIDs - licenses that differ only in CustomIDs get the same
\* verdict on the machine, and a license whose only populated dimension is
\* CustomIDs gets the verdict of an unbound license.
C11_CustomIDsIgnored ==
    res.op = "VerifyHardwareBinding" =>
        /\ \A c \in CustomVariants :
              VerifyHardwareBinding(WithCustomIDs(c), machine) = res.err
        /\ (Bound.MACAddresses = <<>> /\ Bound.DiskIDs = <<>>
               /\ Bound.HostNames = <<>>)
              => res.err = VerifyHardwareBinding(ZeroLicense, machine)

\* a license whose only populated dimension is CustomIDs has passed the
\* hardware check
C11_Witness ==
    /\ res.op = "VerifyHardwareBinding"
    /\ Bound.CustomIDs # <<>>
    /\ Bound.MACAddresses = <<>> /\ Bound.DiskIDs = <<>> /\ Bound.HostNames = <<>>
    /\ res.err = ErrNone

RECURSIVE Unsigned(_, _)
\* the number the first k bytes of b are the little-endian digits of
Unsigned(b, k) == IF k = 0 THEN 0 ELSE 256 * Unsigned(Tail(b), k - 1) + Head(b)

\* the integer an int64 held as eight bytes stands for
I64Value(b) ==
    IF b[8] >= 128 THEN Unsigned(b, 8) - 256 * 256 * 256 * 256 * 256 * 256 * 256 * 256
    ELSE Unsigned(b, 8)

\* an instant in tenths of a second since the epoch
Tenths(sec, nsec) == 10 * sec + nsec

\* the expiry instant of the loaded license and the instant of the last call
ExpiryInstant ==
    Tenths(I64Value(loaded.lic.ExpiryDate.sec), loaded.lic.ExpiryDate.nsec)
CallInstant == Tenths(res.at.sec, res.at.nsec)

\* C12: VerifyExpiry succeeds when the current time equals the expiry
\* instant and returns the expiry error when the current time is later than
\* the expiry instant by a second or by any positive amount.
C12_ExpiryBoundary ==
    res.op = "VerifyExpiry" =>
        /\ (CallInstant = ExpiryInstant => res.err = ErrNone)
        /\ (CallInstant > ExpiryInstant => res.err = ErrExpired)

\* VerifyExpiry has run at the expiry instant and has succeeded
C12_Witness ==
    /\ res.op = "VerifyExpiry"
    /\ CallInstant = ExpiryInstant
    /\ res.err = ErrNone

----------------------------------------------------------------------------
(* Claims about malformed and over-wide codec inputs *)

\* C13: removing the last byte, or any number of trailing bytes, from a
\* valid encoded payload makes DecodeLicenseData return an error; a
\* truncated encoding never decodes to a payload.
C13_TruncationRejected ==
    (cpc = "decoded-truncated" /\ WithinWidths(encIn)) => ~decOut.ok

\* C14: for a payload with a string longer than 65535 bytes or a list of
\* more than 65535 entries EncodeLicenseData returns an error and no bytes;
\* it never emits an encoding with a wrapped length or count field.
C14_OverWidthRejected ==
    (cpc = "encoded" /\ ~WithinWidths(encIn)) => encOut = NoBytes

\* a UTF-8 continuation byte
Cont(b) == b >= 128 /\ b <= 191

RECURSIVE ValidText(_)
\* s is well-formed UTF-8
ValidText(s) ==
    IF s = <<>> THEN TRUE
    ELSE IF s[1] < 128 THEN ValidText(Tail(s))
    ELSE IF s[1] >= 194 /\ s[1] <= 223
    THEN Len(s) >= 2 /\ Cont(s[2]) /\ ValidText(SubSeq(s, 3, Len(s)))
    ELSE IF s[1] >= 224 /\ s[1] <= 239
    THEN /\ Len(s) >= 3 /\ Cont(s[2]) /\ Cont(s[3])
         /\ (s[1] = 224 => s[2] >= 160)
         /\ (s[1] = 237 => s[2] <= 159)
         /\ ValidText(SubSeq(s, 4, Len(s)))
    ELSE IF s[1] >= 240 /\ s[1] <= 244
    THEN /\ Len(s) >= 4 /\ Cont(s[2]) /\ Cont(s[3]) /\ Cont(s[4])
         /\ (s[1] = 240 => s[2] >= 144)
         /\ (s[1] = 244 => s[2] <= 143)
         /\ ValidText(SubSeq(s, 5, Len(s)))
    ELSE FALSE

\* C15: DecodeLicenseData returns an error whenever a length-prefixed
\* string of its input is no valid text; it never returns a payload that
\* contains such a string.
C15_InvalidTextRejected ==
    (cpc = "decoded" /\ WithinWidths(encIn) /\ decOut.ok)
        => \A x \in StringsOf(decOut) : ValidText(x)

----------------------------------------------------------------------------
(* Claims about key sizes *)

\* C16: the signature LoadLicense splits off the file has the byte length
\* of the signing key's modulus, so a license issued with a key of any size
\* the tool generates loads and passes VerifySignature under the matching
\* public key.
C16_SignatureLengthOfKey ==
    (issued.kind = "binary" /\ edit = NoEdit /\ issued.key = pub /\ loaded.called)
        => /\ loaded.ok
           /\ Len(loaded.lic.Signature) = KeyBytes(issued.key)
           /\ (res.op = "VerifySignature" => res.err = ErrNone)

----------------------------------------------------------------------------
(* Claims about legacy files and short files *)

\* C17: a legacy license file of any v1.x release, a v1.0 file without
\* serial_number included, is loaded through the JSON fallback with its
\* original field values and passes VerifySignature under the matching
\* public key.
C17_LegacyAccepted ==
    (/\ issued.kind \in {"legacy", "legacy-1.0"}
     /\ edit = NoEdit
     /\ issued.key = pub
     /\ loaded.called)
        => /\ loaded.ok
           /\ loaded.path = "json"
           /\ loaded.lic = [issued.lic EXCEPT !.Signature = FileSignature]
           /\ (res.op = "VerifySignature" => res.err = ErrNone)

\* C18: LoadLicense returns an error and no license for every file of at
\* most 256 bytes; a license is only returned from a file with a non-empty
\* payload before the signature.
C18_ShortFileRejected ==
    loaded.called =>
        /\ (Len(file) <= SignatureSize => ~loaded.ok /\ loaded.lic = ZeroLicense)
        /\ (loaded.ok => Len(file) > SignatureSize /\ FilePayload # <<>>)

\* LoadLicense has refused a file that is exactly as long as a signature
C18_Witness ==
    /\ loaded.called
    /\ Len(file) = SignatureSize
    /\ ~loaded.ok

----------------------------------------------------------------------------
(* Claims about licforge genlicense *)

\* the four identifiers of a license
Identifiers(lic) ==
    {lic.ID, lic.CustomerID, lic.ProductID, lic.SerialNumber}

\* the four identifiers on the command line
GivenIdentifiers ==
    {TrimSpace(order.licenseID), TrimSpace(order.customerID),
     TrimSpace(order.productID), TrimSpace(order.serialNumber)}

\* C19: every license licforge genlicense produces with an accepted -days
\* value, in the file and as LoadLicense returns it, has an expiry date
\* strictly later than its issue date, in seconds.
C19_ExpiryAfterIssue ==
    /\ issued.kind = "binary" =>
          I64LessFrom(issued.lic.IssueDate.sec, issued.lic.ExpiryDate.sec, 8)
    /\ (issued.kind = "binary" /\ loaded.ok) =>
          I64LessFrom(loaded.lic.IssueDate.sec, loaded.lic.ExpiryDate.sec, 8)

\* C20: every license file licforge genlicense writes, with flags or
\* interactively, has a non-empty license ID, customer ID, product ID and
\* serial number, and the command writes no file when one of them is empty.
C20_IdentifiersPresent ==
    /\ issued.kind = "binary" => <<>> \notin Identifiers(issued.lic)
    /\ (issued.kind = "binary" /\ loaded.ok) => <<>> \notin Identifiers(loaded.lic)
    /\ (issued.kind # "none" /\ <<>> \in GivenIdentifiers) => file = <<>>

----------------------------------------------------------------------------
(* Claims about what the verdict depends on *)

\* a license of the issuer whose public key the verifier holds was loaded
\* from the file as it was written
LoadedGenuine ==
    /\ issued.kind = "binary"
    /\ issued.key = pub
    /\ edit = NoEdit
    /\ loaded.ok

\* C21: for a correctly signed license whose expiry date is in the past,
\* VerifySignature succeeds, VerifyExpiry returns the expiry error and IsValid
\* returns an error; VerifySignature succeeds on a correctly signed license
\* at every time of the call.
C21_ExpiryApartFromSignature ==
    LoadedGenuine =>
        /\ (res.op = "VerifySignature" => res.err = ErrNone)
        /\ (res.op = "VerifyExpiry" /\ CallInstant > ExpiryInstant
                => res.err = ErrExpired)
        /\ (res.op = "IsValid" /\ CallInstant > ExpiryInstant
                => res.err # ErrNone)

\* IsValid has refused an expired license for its expiry alone
C21_Witness ==
    /\ LoadedGenuine
    /\ res.op = "IsValid"
    /\ CallInstant > ExpiryInstant
    /\ res.err = ErrExpired

\* two licenses agree in every string, list and second of a date
SameAtSeconds(a, b) ==
    /\ a.ID = b.ID
    /\ a.CustomerID = b.CustomerID
    /\ a.ProductID = b.ProductID
    /\ a.SerialNumber = b.SerialNumber
    /\ a.IssueDate.sec = b.IssueDate.sec
    /\ a.ExpiryDate.sec = b.ExpiryDate.sec
    /\ a.Features = b.Features
    /\ a.HardwareIDs = b.HardwareIDs

IssueInstant ==
    Tenths(I64Value(loaded.lic.IssueDate.sec), loaded.lic.IssueDate.nsec)

\* every list of the binding that is not empty matches the machine
BindingMatches ==
    /\ (Bound.MACAddresses # <<>> => MacMatches)
    /\ (Bound.DiskIDs # <<>> => DiskMatches)
    /\ (Bound.HostNames # <<>> => HostMatches)

\* C30: a correctly signed license whose issue date is later than the time
\* of the call, or later than its own expiry date, is accepted by IsValid
\* whenever it is not expired and its hardware binding matches.
C30_IssueDateNotJudged ==
    (/\ LoadedGenuine
     /\ res.op = "IsValid"
     /\ (IssueInstant > CallInstant \/ IssueInstant > ExpiryInstant)
     /\ CallInstant <= ExpiryInstant
     /\ BindingMatches)
        => res.err = ErrNone

\* IsValid has accepted a license issued after the call and after its own
\* expiry date
C30_Witness ==
    /\ LoadedGenuine
    /\ res.op = "IsValid"
    /\ IssueInstant > CallInstant
    /\ IssueInstant > ExpiryInstant
    /\ res.err = ErrNone

\* C26: in every issued license, as built and as loaded from the file, the
\* expiry date minus the issue date equals the requested validity duration
\* in seconds, however the clock advances during GenerateLicense.
C26_ExpiryIsIssuePlusDuration ==
    /\ issued.kind = "binary" =>
          I64Value(issued.lic.ExpiryDate.sec) - I64Value(issued.lic.IssueDate.sec)
              = order.expiryDuration
    /\ (issued.kind = "binary" /\ edit = NoEdit /\ loaded.ok) =>
          I64Value(loaded.lic.ExpiryDate.sec) - I64Value(loaded.lic.IssueDate.sec)
              = order.expiryDuration

\* C24: LoadLicense calls the binary decoder first and the JSON decoder only
\* after the binary decoder returned an error, at most once; when both fail
\* it returns an error and no license; a license of the JSON path holds what
\* the JSON decoder read and nothing else, and a license of the binary path
\* is returned without a call of the JSON decoder.
C24_BinaryThenJson ==
    loaded.called =>
        /\ loaded.tried \in {<<>>, <<"binary">>, <<"binary", "json">>}
        /\ loaded.tried = <<>> <=> Len(file) < SignatureSize
        /\ loaded.tried = <<"binary">> =>
              /\ DecodeLicense(FilePayload).ok
              /\ loaded.ok /\ loaded.path = "binary"
              /\ loaded.lic =
                    [DecodeLicense(FilePayload).lic EXCEPT !.Signature = FileSignature]
        /\ loaded.tried = <<"binary", "json">> =>
              /\ ~DecodeLicense(FilePayload).ok
              /\ loaded.ok = JsonUnmarshal(FilePayload).ok
              /\ loaded.ok =>
                    /\ loaded.path = "json"
                    /\ loaded.lic =
                          [JsonUnmarshal(FilePayload).lic EXCEPT !.Signature = FileSignature]
        /\ ~loaded.ok => loaded.lic = ZeroLicense /\ loaded.path = "none"

\* LoadLicense has returned the license the JSON decoder read after the
\* binary decoder failed
C24_Witness ==
    /\ loaded.called
    /\ loaded.ok
    /\ loaded.path = "json"
    /\ loaded.tried = <<"binary", "json">>

----------------------------------------------------------------------------
(* Claims about the codec on every input *)

\* the last string EncodeLicenseData writes for p, when it writes one
EndsWithEmptyCustomID(p) ==
    /\ p.HardwareIDs.CustomIDs # <<>>
    /\ p.HardwareIDs.CustomIDs[Len(p.HardwareIDs.CustomIDs)] = <<>>

\* C27: readString returns the empty string without error for a length
\* prefix of 0 also when the prefix is the last two bytes of the input; a
\* payload whose last CustomIDs entry is the empty string decodes from its
\* own encoding.
C27_EmptyStringAtEnd ==
    (cpc = "decoded" /\ WithinWidths(encIn) /\ EndsWithEmptyCustomID(encIn))
        => /\ readString(encOut, Len(encOut) - 2).ok
           /\ decOut.ok
           /\ decOut.HardwareIDs.CustomIDs = encIn.HardwareIDs.CustomIDs

\* C28: the result of DecodeLicenseData does not depend on the value of the
\* header's length field nor on bytes that follow the last CustomIDs entry:
\* an encoding with another length value or with a byte appended decodes to
\* what the encoding itself decodes to.
C28_LengthAndTailIgnored ==
    (cpc = "decoded-altered" /\ WithinWidths(encIn))
        => decOut = DecodeLicenseData(EncodeLicenseData(encIn))

\* C29: two payloads within the field widths have the same encoding exactly
\* when they agree in every identifier string, in the issue and expiry
\* second and in every list; payloads that share an encoding differ in the
\* sub-second part of a date at most.
C29_EncodingInjective ==
    (cpc = "encoded" /\ WithinWidths(encIn)) =>
        \A q \in PairPayloads :
            EncodeLicenseData(q) = encOut <=> SameAtSeconds(q, encIn)

\* a payload was encoded that shares its encoding with a payload of another
\* expiry instant in the same second
C29_Witness ==
    /\ cpc = "encoded"
    /\ \E q \in PairPayloads :
          /\ q.ExpiryDate # encIn.ExpiryDate
          /\ EncodeLicenseData(q) = encOut

----------------------------------------------------------------------------
(* Claims about the file that is written *)

\* the file the first run of licforge genlicense wrote
FirstFile ==
    EncodeLicense(issued.lic) \o SignData(EncodeLicense(issued.lic), issued.key)

\* C25: when SaveLicenseToFile fails or stops partway, a file that was at
\* the path before still holds its previous content.
C25_FailedSaveKeepsFile ==
    edit.kind \in {"save-failed", "open-failed"} => file = FirstFile

----------------------------------------------------------------------------
(* Claims about calls in flight *)

\* what LoadLicense returns for the file, which the License of the caller
\* was loaded from
FromFile == LoadLicense(file)

\* what the call res[c] returns when it runs alone on that License, with the
\* reading of the clock it made
Alone(c) ==
    CASE res[c].op = "VerifySignature" -> VerifySignature(FromFile.lic, 1)
      [] res[c].op = "VerifyExpiry" ->
            VerifyExpiry(FromFile.lic, Now(res[c].local.sec, res[c].local.nsec))
      [] res[c].op = "LoadLicense" -> FromFile

\* C23: LoadLicense, VerifySignature and VerifyExpiry calls interleaved on
\* one Verifier each return what they return when run alone, and none of
\* them changes the public key of the Verifier or the License passed in.
C23_CallsIndependent ==
    /\ pub = 1
    /\ loaded.lic = FromFile.lic
    /\ \A c \in DOMAIN res : res[c].pc = "done" => res[c].out = Alone(c)

\* a VerifySignature call has accepted the License after another
\* VerifySignature call had made its copy
C23_Witness ==
    \E c \in DOMAIN res, d \in DOMAIN res :
        /\ c # d
        /\ res[c].op = "VerifySignature" /\ res[c].pc = "done"
        /\ res[c].out = ErrNone
        /\ res[d].op = "VerifySignature" /\ res[d].pc \in {"entered", "done"}

====
